---- MODULE Spec2Model ----
(***************************************************************************)
(* Model of the frame-indent-rainbow extension (src/unnamed/part_000, the  *)
(* current extension.ts): the language policy cache, the debounced         *)
(* scheduling of analysis passes, and the analysis pass itself.            *)
(*                                                                         *)
(* Text is a sequence of one-character strings over Chars: "T" is a tab,   *)
(* "S" a space, "X" any other non-newline character, "N" the newline.      *)
(* Offsets and columns are 0-based as in the source; the character at      *)
(* offset i of text is text[i + 1].                                        *)
(***************************************************************************)
EXTENDS Integers, Sequences, FiniteSets, TLC

VARIABLES config, editors, activeEditor, cache, dirtyDecorations,
          updateTimeout, timers, rendered, hung,
          ignoreErrorsOnLinesRegExps, setDecorationsCalls, constructed,
          uncaught, handled

\* config, activeEditor, cache (of the LanguagePropertiesCache),
\* dirtyDecorations, updateTimeout and ignoreErrorsOnLinesRegExps are the
\* fields of FrameRainbow (part_000:336-343); editors are the editors of the
\* window with their document and options, timers the pending setTimeout
\* callbacks, rendered what each editor shows, setDecorationsCalls the
\* setDecorations calls of the last handler that made any.  constructed says
\* whether activate got past the constructor, hung that a handler never
\* returns, uncaught that a timer callback threw.  handled records, for each
\* editor, the shouldDecorate of the last event handled for it.
vars == <<config, editors, activeEditor, cache, dirtyDecorations,
          updateTimeout, timers, rendered, hung,
          ignoreErrorsOnLinesRegExps, setDecorationsCalls, constructed,
          uncaught, handled>>

\* ------------------------------------------------------------------ bounds
MaxDocLen == 4
MaxTabSize == 2
MaxColors == 2
MaxTimers == 3

Chars == {"T", "S", "X", "N"}
Whitespace == {"T", "S"}
None == "none"

Texts == UNION {[1..n -> Chars] : n \in 0..MaxDocLen}
TimerIds == 1..MaxTimers

Min(a, b) == IF a < b THEN a ELSE b
Max(a, b) == IF a > b THEN a ELSE b

\* ------------------------------------------------- the document accessor
\* String.prototype.indexOf(ch, from) for a one-character needle; -1 if none.
indexOf(str, ch, from) ==
  LET hits == {i \in from..(Len(str) - 1) : str[i + 1] = ch}
  IN IF hits = {} THEN -1 ELSE CHOOSE i \in hits : \A j \in hits : i <= j

\* String.prototype.includes for a one-character needle.
includes(str, ch) == \E i \in 1..Len(str) : str[i] = ch

\* TextDocument.positionAt: line = newlines before the offset, character =
\* distance from the start of that line.
positionAt(text, offset) ==
  LET o == Max(0, Min(offset, Len(text)))
      nls == {k \in 1..o : text[k] = "N"}
      lineStart == IF nls = {} THEN 0
                   ELSE CHOOSE k \in nls : \A j \in nls : j <= k
  IN [line |-> Cardinality(nls), character |-> o - lineStart]

\* Position.translate(0, characterDelta).
translate(pos, delta) == [line |-> pos.line, character |-> pos.character + delta]

\* TextDocument.lineCount.
lineCount(text) == Cardinality({k \in 1..Len(text) : text[k] = "N"}) + 1

\* Offset of the first character of line l.
lineStartOffset(text, l) ==
  IF l = 0 THEN 0
  ELSE CHOOSE k \in 1..Len(text) :
         /\ text[k] = "N"
         /\ Cardinality({j \in 1..k : text[j] = "N"}) = l

\* TextDocument.lineAt(l).text.length: the line without its terminator.
lineLength(text, l) ==
  LET s == lineStartOffset(text, l)
      e == indexOf(text, "N", s)
  IN (IF e = -1 THEN Len(text) ELSE e) - s

\* getLongestLineLength that keeps the length of the last line, not the
\* maximum.
getLongestLineLength_lastLine(text) == lineLength(text, lineCount(text) - 1)

\* getLongestLineLength (part_000:62-68).
getLongestLineLength(text) ==
  LET lens == {lineLength(text, l) : l \in 0..(lineCount(text) - 1)}
  IN CHOOSE m \in lens : \A x \in lens : x <= m

\* getTabSize (part_000:70-77): a falsy raw value (modelled as 0) or a string
\* raw value (modelled as -1) falls back to 4.
getTabSize(options) ==
  IF options.tabSize <= 0 THEN 4 ELSE options.tabSize

\* The length of a run when a tab ends at the next multiple of tabSize.
RECURSIVE tabStopLength(_, _, _)
tabStopLength(input, tabSize, column) ==
  IF input = <<>> THEN column
  ELSE tabStopLength(Tail(input), tabSize,
         IF Head(input) = "T" THEN column + tabSize - (column % tabSize)
         ELSE column + 1)

getWhitespaceLengthInSpaces_tabStops(input, tabSize) ==
  tabStopLength(input, tabSize, 0)

\* getWhitespaceLengthInSpaces (part_000:79-88).
RECURSIVE getWhitespaceLengthInSpaces(_, _)
getWhitespaceLengthInSpaces(input, tabSize) ==
  IF input = <<>> THEN 0
  ELSE (IF Head(input) = "T" THEN tabSize ELSE 1)
       + getWhitespaceLengthInSpaces(Tail(input), tabSize)

\* ------------------------------------------------------ ignore patterns
\* A configured ignore-pattern string is modelled by what it denotes: a
\* concatenation of character classes (classes, possibly empty), written
\* either as /pattern/flags (delimited, with flags a subset of g, i, m) or
\* bare.  buildIgnoreErrorsOnLinesRegExps (part_000:48-60) keeps the flags of
\* a delimited string and compiles a bare one without flags; a new RegExp
\* has lastIndex 0.
buildIgnoreErrorsOnLinesRegExps(cfg) ==
  [k \in 1..Len(cfg.ignoreLinePatterns) |->
     LET ignorePattern == cfg.ignoreLinePatterns[k]
     IN IF ignorePattern.delimited
        THEN [classes |-> ignorePattern.classes,
              global |-> "g" \in ignorePattern.flags,
              lastIndex |-> 0]
        ELSE [classes |-> ignorePattern.classes, global |-> FALSE,
              lastIndex |-> 0]]

\* new RegExp throws a SyntaxError on a pattern that does not compile
\* (part_000:54, 57); nothing in buildIgnoreErrorsOnLinesRegExps, in the
\* constructor (part_000:345-350) or in activate (part_000:412-414) catches it.
constructorThrows(cfg) ==
  \E k \in 1..Len(cfg.ignoreLinePatterns) : ~cfg.ignoreLinePatterns[k].valid

\* exec that leaves lastIndex where it was when nothing matches.
RegExpExec_noReset(re, text, lastIndex) ==
  LET n == Len(re.classes)
      from == IF re.global THEN lastIndex ELSE 0
      hits == {i \in from..(Len(text) - n) :
                 \A k \in 1..n : text[i + k] \in re.classes[k]}
      index == IF hits = {} THEN -1
               ELSE CHOOSE i \in hits : \A j \in hits : i <= j
  IN [index |-> index,
      lastIndex |-> IF ~re.global \/ index = -1 THEN lastIndex ELSE index + n]

\* RegExp.prototype.exec: the leftmost match at or after lastIndex (for a
\* global expression) or after 0; a global expression moves lastIndex to the
\* end of the match and resets it to 0 on failure.
RegExpExec(re, text, lastIndex) ==
  LET n == Len(re.classes)
      from == IF re.global THEN lastIndex ELSE 0
      hits == {i \in from..(Len(text) - n) :
                 \A k \in 1..n : text[i + k] \in re.classes[k]}
      index == IF hits = {} THEN -1
               ELSE CHOOSE i \in hits : \A j \in hits : i <= j
  IN [index |-> index,
      lastIndex |-> IF ~re.global THEN lastIndex
                    ELSE IF index = -1 THEN 0 ELSE index + n]

\* The while loop of getLinesMatchingRegExps for one pattern
\* (part_000:96-101).  When exec succeeds without moving lastIndex the next
\* iteration repeats this one for ever: diverges.
RECURSIVE execLoop(_, _, _, _)
execLoop(pattern, text, lastIndex, set) ==
  LET match == RegExpExec(pattern, text, lastIndex)
  IN IF match.index = -1
     THEN [diverges |-> FALSE, set |-> set, lastIndex |-> match.lastIndex]
     ELSE IF match.lastIndex = lastIndex
     THEN [diverges |-> TRUE, set |-> set, lastIndex |-> lastIndex]
     ELSE execLoop(pattern, text, match.lastIndex,
                   set \cup {positionAt(text, match.index).line})

\* getLinesMatchingRegExps (part_000:93-104): the set of lines, and the
\* expressions as the scan leaves them (each loop starts from the lastIndex
\* its expression was left with).
RECURSIVE getLinesMatchingRegExps(_, _, _)
getLinesMatchingRegExps(text, regExps, set) ==
  IF regExps = <<>> THEN [diverges |-> FALSE, set |-> set, regExps |-> <<>>]
  ELSE LET pattern == Head(regExps)
           r == execLoop(pattern, text, pattern.lastIndex, set)
           rest == getLinesMatchingRegExps(text, Tail(regExps), r.set)
       IN IF r.diverges
          THEN [diverges |-> TRUE, set |-> r.set, regExps |-> regExps]
          ELSE [diverges |-> rest.diverges, set |-> rest.set,
                regExps |-> <<[pattern EXCEPT !.lastIndex = r.lastIndex]>>
                            \o rest.regExps]

\* ------------------------------------------------- DecorationsBuilder
Range(startPos, endPos) == [start |-> startPos, end |-> endPos]

\* new DecorationsBuilder (part_000:171-175): one empty list per colour.
\* threw becomes true when a push on the builder throws a TypeError.
DecorationsBuilder(cfg) ==
  [outerFrame |-> [i \in 1..cfg.colors |-> <<>>],
   innerFrame |-> [i \in 1..cfg.colors |-> <<>>],
   error |-> <<>>,
   tabmix |-> <<>>,
   threw |-> FALSE]

\* LineDecorationContext that ignores the set of lines to skip.
LineDecorationContext_skipAllOnly(text, longestLineLength, options, matchArray, skipAllErrors, ignoreErrorsOnLines) ==
  LET matchStartPos == positionAt(text, matchArray.index)
      matchEndIndex == matchArray.index + Len(matchArray.str)
  IN [text |-> text,
      longestLineLength |-> longestLineLength,
      options |-> options,
      whitespaceMatch |-> matchArray.str,
      matchStartPos |-> matchStartPos,
      matchEndIndex |-> matchEndIndex,
      matchEndPos |-> positionAt(text, matchEndIndex),
      line |-> matchStartPos.line,
      skipErrors |-> skipAllErrors,
      tabSize |-> getTabSize(options)]

\* ---------------------------------------------- LineDecorationContext
\* The constructor (part_000:202-221); matchArray is [index, str].
LineDecorationContext(text, longestLineLength, options, matchArray, skipAllErrors, ignoreErrorsOnLines) ==
  LET matchStartPos == positionAt(text, matchArray.index)
      matchEndIndex == matchArray.index + Len(matchArray.str)
  IN [text |-> text,
      longestLineLength |-> longestLineLength,
      options |-> options,
      whitespaceMatch |-> matchArray.str,
      matchStartPos |-> matchStartPos,
      matchEndIndex |-> matchEndIndex,
      matchEndPos |-> positionAt(text, matchEndIndex),
      line |-> matchStartPos.line,
      skipErrors |-> skipAllErrors \/ matchStartPos.line \in ignoreErrorsOnLines,
      tabSize |-> getTabSize(options)]

\* The for(;;) loop of decorateTabmix (part_000:254-265).
RECURSIVE tabmixLoop(_, _, _, _)
tabmixLoop(ctx, unexpectedIndent, pos, tabmix) ==
  LET indexOfUnexpected == indexOf(ctx.whitespaceMatch, unexpectedIndent.char, pos)
  IN IF indexOfUnexpected = -1 THEN tabmix
     ELSE tabmixLoop(ctx, unexpectedIndent, indexOfUnexpected + 1,
            Append(tabmix,
              [range |-> Range(translate(ctx.matchStartPos, indexOfUnexpected),
                               translate(ctx.matchStartPos, indexOfUnexpected + 1)),
               hoverMessage |-> unexpectedIndent.name]))

\* decorateTabmix with the expected and the unexpected indent swapped.
decorateTabmix_swapped(ctx, builder) ==
  LET space == [name |-> "space", char |-> "S"]
      tab == [name |-> "tab", char |-> "T"]
      indentInSpaces == ctx.options.insertSpaces
      unexpectedIndent == IF indentInSpaces THEN space ELSE tab
  IN IF includes(ctx.whitespaceMatch, unexpectedIndent.char)
     THEN [errorsFound |-> TRUE,
           builder |-> [builder EXCEPT
              !.tabmix = tabmixLoop(ctx, unexpectedIndent, 0, builder.tabmix)]]
     ELSE [errorsFound |-> FALSE, builder |-> builder]

\* decorateTabmix (part_000:237-269).
decorateTabmix(ctx, builder) ==
  LET space == [name |-> "space", char |-> "S"]
      tab == [name |-> "tab", char |-> "T"]
      indentInSpaces == ctx.options.insertSpaces
      unexpectedIndent == IF indentInSpaces THEN tab ELSE space
  IN IF includes(ctx.whitespaceMatch, unexpectedIndent.char)
     THEN [errorsFound |-> TRUE,
           builder |-> [builder EXCEPT
              !.tabmix = tabmixLoop(ctx, unexpectedIndent, 0, builder.tabmix)]]
     ELSE [errorsFound |-> FALSE, builder |-> builder]

\* decorateError that finds no error.
decorateError_never(ctx, builder) ==
  [errorsFound |-> FALSE, builder |-> builder]

\* decorateError (part_000:271-282).
decorateError(ctx, builder) ==
  LET whitespaceLengthInSpaces ==
        getWhitespaceLengthInSpaces(ctx.whitespaceMatch, ctx.tabSize)
  IN IF whitespaceLengthInSpaces % ctx.tabSize # 0
     THEN [errorsFound |-> TRUE,
           builder |-> [builder EXCEPT !.error = Append(builder.error,
              [range |-> Range(ctx.matchStartPos, ctx.matchEndPos),
               hoverMessage |-> <<whitespaceLengthInSpaces, ctx.tabSize>>])]]
     ELSE [errorsFound |-> FALSE, builder |-> builder]

\* advance that moves past one character, tab or space.
advance_oneChar(whitespaceMatch, nextCharIndex, tabSize) == nextCharIndex + 1

\* advance without the clipping at the end of the run.
advance_unclipped(whitespaceMatch, nextCharIndex, tabSize) ==
  IF whitespaceMatch[nextCharIndex + 1] = "T"
  THEN nextCharIndex + 1
  ELSE nextCharIndex + tabSize

\* One iteration of the while loop of decorateOuterFrames advances
\* nextCharIndex (part_000:289-293): past one tab, or past up to tabSize
\* characters clipped at the end of the run.
advance(whitespaceMatch, nextCharIndex, tabSize) ==
  IF whitespaceMatch[nextCharIndex + 1] = "T"
  THEN nextCharIndex + 1
  ELSE Min(nextCharIndex + tabSize, Len(whitespaceMatch))

\* The iterations of the while loop of decorateOuterFrames
\* (part_000:285-305): iteration number tabDepth starts at column start
\* of the run and leaves nextCharIndex at column end.
RECURSIVE DepthSegments(_, _, _, _)
DepthSegments(whitespaceMatch, tabSize, nextCharIndex, tabDepth) ==
  IF nextCharIndex < Len(whitespaceMatch)
  THEN LET next == advance(whitespaceMatch, nextCharIndex, tabSize)
       IN <<[start |-> nextCharIndex, end |-> next, depthIndex |-> tabDepth]>>
          \o DepthSegments(whitespaceMatch, tabSize, next, tabDepth + 1)
  ELSE <<>>

\* decoratorIndex without the offset of one.
decoratorIndex_noOffset(tabDepth, length) == tabDepth % length

\* decoratorIndex of an outer or inner frame (part_000:301, 322).
decoratorIndex(tabDepth, length) == (tabDepth - 1) % length

\* The body of the loop after the advance (part_000:294-304): iteration 0
\* pushes nothing, every later one pushes its range to its colour's list.
RECURSIVE pushOuterFrames(_, _, _)
pushOuterFrames(ctx, segments, outerFrame) ==
  IF segments = <<>> THEN outerFrame
  ELSE LET seg == Head(segments)
           frameStartPos == translate(ctx.matchStartPos, seg.start)
           endPos == translate(ctx.matchStartPos, seg.end)
           index == decoratorIndex(seg.depthIndex, Len(outerFrame))
       IN IF seg.depthIndex = 0
          THEN pushOuterFrames(ctx, Tail(segments), outerFrame)
          ELSE pushOuterFrames(ctx, Tail(segments),
                 [outerFrame EXCEPT ![index + 1] =
                    Append(@, [range |-> Range(frameStartPos, endPos)])])

\* decorateOuterFrames (part_000:284-306).  Without colours the
\* decoratorIndex of the first push is NaN, builder.outerFrame[NaN] is
\* undefined and the push throws (part_000:301-302).
decorateOuterFrames(ctx, builder) ==
  LET segments == DepthSegments(ctx.whitespaceMatch, ctx.tabSize, 0, 0)
  IN IF Len(builder.outerFrame) = 0 /\ Len(segments) >= 2
     THEN [builder EXCEPT !.threw = TRUE]
     ELSE [builder EXCEPT !.outerFrame =
             pushOuterFrames(ctx, segments, builder.outerFrame)]

\* decorateInnerFrame that always extends the range to the end of the text.
decorateInnerFrame_toTextEnd(ctx, builder) ==
  LET tabDepth ==
        getWhitespaceLengthInSpaces(ctx.whitespaceMatch, ctx.tabSize) \div ctx.tabSize
      startPos == positionAt(ctx.text, ctx.matchEndIndex)
      endPos == positionAt(ctx.text, Len(ctx.text))
      endOfLineDecorationLength ==
        ctx.longestLineLength - lineLength(ctx.text, ctx.line)
      index == (tabDepth - 1) % Len(builder.innerFrame)
  IN IF tabDepth = 0 THEN builder
     ELSE [builder EXCEPT !.innerFrame[index + 1] =
             Append(@, [range |-> Range(startPos, endPos),
                        width |-> endOfLineDecorationLength])]

\* decorateInnerFrame (part_000:308-332).
decorateInnerFrame(ctx, builder) ==
  LET tabDepth ==
        getWhitespaceLengthInSpaces(ctx.whitespaceMatch, ctx.tabSize) \div ctx.tabSize
      found == indexOf(ctx.text, "N", ctx.matchEndIndex)
      endlineIndex == IF found = -1 THEN Len(ctx.text) ELSE found
      startPos == positionAt(ctx.text, ctx.matchEndIndex)
      endPos == positionAt(ctx.text, endlineIndex)
      endOfLineDecorationLength ==
        ctx.longestLineLength - lineLength(ctx.text, ctx.line)
      index == decoratorIndex(tabDepth, Len(builder.innerFrame))
  IN IF builder.threw THEN builder  \* not reached: decorateOuterFrames threw
     ELSE IF tabDepth = 0 THEN builder
     ELSE IF Len(builder.innerFrame) = 0
     THEN [builder EXCEPT !.threw = TRUE]  \* as in decorateOuterFrames
     ELSE [builder EXCEPT !.innerFrame[index + 1] =
             Append(@, [range |-> Range(startPos, endPos),
                        width |-> endOfLineDecorationLength])]

\* decorate that decorates the frames whether or not an error was found.
decorate_framesAlways(ctx, builder) ==
  LET tabmix == IF ~ctx.skipErrors THEN decorateTabmix(ctx, builder)
                ELSE [errorsFound |-> FALSE, builder |-> builder]
      error == IF ~ctx.skipErrors /\ ~tabmix.errorsFound
               THEN decorateError(ctx, tabmix.builder)
               ELSE [errorsFound |-> FALSE, builder |-> tabmix.builder]
  IN decorateInnerFrame(ctx, decorateOuterFrames(ctx, error.builder))

\* decorate that evaluates decorateError also after a tabmix error.
decorate_bothErrors(ctx, builder) ==
  LET tabmix == IF ~ctx.skipErrors THEN decorateTabmix(ctx, builder)
                ELSE [errorsFound |-> FALSE, builder |-> builder]
      error == IF ~ctx.skipErrors
               THEN decorateError(ctx, tabmix.builder)
               ELSE [errorsFound |-> FALSE, builder |-> tabmix.builder]
      errorsFound == tabmix.errorsFound \/ error.errorsFound
  IN IF ~errorsFound
     THEN decorateInnerFrame(ctx, decorateOuterFrames(ctx, error.builder))
     ELSE error.builder

\* decorate (part_000:223-234); || does not evaluate decorateError once
\* decorateTabmix has returned true.
decorate(ctx, builder) ==
  LET tabmix == IF ~ctx.skipErrors THEN decorateTabmix(ctx, builder)
                ELSE [errorsFound |-> FALSE, builder |-> builder]
      error == IF ~ctx.skipErrors /\ ~tabmix.errorsFound
               THEN decorateError(ctx, tabmix.builder)
               ELSE [errorsFound |-> FALSE, builder |-> tabmix.builder]
      errorsFound == tabmix.errorsFound \/ error.errorsFound
  IN IF ~errorsFound
     THEN decorateInnerFrame(ctx, decorateOuterFrames(ctx, error.builder))
     ELSE error.builder

\* initialWhitespaceRegExp.exec(text) for /^[\t ]+/gm (part_000:392, 402):
\* the leftmost line start at or after lastIndex that holds a tab or space,
\* with the longest run of tabs and spaces from there.
initialWhitespaceRegExpExec(text, lastIndex) ==
  LET hits == {i \in lastIndex..(Len(text) - 1) :
                 /\ i = 0 \/ text[i] = "N"
                 /\ text[i + 1] \in Whitespace}
      index == IF hits = {} THEN -1
               ELSE CHOOSE i \in hits : \A j \in hits : i <= j
      stops == {j \in index..(Len(text) - 1) : text[j + 1] \notin Whitespace}
      end == IF stops = {} THEN Len(text)
             ELSE CHOOSE j \in stops : \A k \in stops : j <= k
  IN IF index = -1 THEN [index |-> -1, str |-> <<>>, lastIndex |-> 0]
     ELSE [index |-> index, str |-> SubSeq(text, index + 1, end), lastIndex |-> end]

\* The while loop of updateDecorations (part_000:401-405).
RECURSIVE decorateLines(_, _, _, _, _, _, _)
decorateLines(text, lastIndex, longestLineLength, options, skipAllErrors, ignoreErrorsOnLines, builder) ==
  LET matchArray == initialWhitespaceRegExpExec(text, lastIndex)
  IN IF matchArray.index = -1 \/ builder.threw THEN builder
     ELSE decorateLines(text, matchArray.lastIndex, longestLineLength, options,
            skipAllErrors, ignoreErrorsOnLines,
            decorate(LineDecorationContext(text, longestLineLength, options,
                       matchArray, skipAllErrors, ignoreErrorsOnLines),
                     builder))

\* updateDecorations up to builder.apply (part_000:390-405): the builder the
\* pass computes and the expressions as it leaves them, or diverges when the
\* suppression scan never ends.
updateDecorations(cfg, regExps, editor, skipAllErrors) ==
  LET text == editor.text
      longestLineLength == getLongestLineLength(text)
      scan == IF skipAllErrors
              THEN [diverges |-> FALSE, set |-> {}, regExps |-> regExps]
              ELSE getLinesMatchingRegExps(text, regExps, {})
  IN IF scan.diverges
     THEN [diverges |-> TRUE, regExps |-> scan.regExps,
           builder |-> DecorationsBuilder(cfg)]
     ELSE [diverges |-> FALSE, regExps |-> scan.regExps,
           builder |-> decorateLines(text, 0, longestLineLength, editor.options,
                         skipAllErrors, scan.set, DecorationsBuilder(cfg))]

\* --------------------------------------------- LanguagePropertiesCache
\* shouldSkipErrorsForLanguage that does not look up the wildcard.
shouldSkipErrorsForLanguage_noWildcard(cfg, languageId) ==
  IF cfg.ignoreErrorLanguages # {}
  THEN languageId # "" /\ languageId \in cfg.ignoreErrorLanguages
  ELSE FALSE

\* shouldSkipErrorsForLanguage (part_000:138-145); the empty languageId is
\* falsy, so only the wildcard is then looked up.
shouldSkipErrorsForLanguage(cfg, languageId) ==
  IF cfg.ignoreErrorLanguages # {}
  THEN LET allAndCurrentLang == IF languageId # "" THEN {"*", languageId} ELSE {"*"}
       IN \E lang \in allAndCurrentLang : lang \in cfg.ignoreErrorLanguages
  ELSE FALSE

\* shouldDecorateLanguage that consults the exclude list only when there is
\* no include list.
shouldDecorateLanguage_includeWins(cfg, languageId) ==
  IF cfg.includedLanguages # {}
  THEN languageId \in cfg.includedLanguages
  ELSE ~(cfg.excludedLanguages # {} /\ languageId \in cfg.excludedLanguages)

\* shouldDecorateLanguage (part_000:147-161).
shouldDecorateLanguage(cfg, languageId) ==
  LET afterInclude == IF cfg.includedLanguages # {}
                         /\ languageId \notin cfg.includedLanguages
                      THEN FALSE ELSE TRUE
  IN IF afterInclude /\ cfg.excludedLanguages # {}
        /\ languageId \in cfg.excludedLanguages
     THEN FALSE ELSE afterInclude

\* getForNewLanguage (part_000:130-136).
getForNewLanguage(cfg, languageId) ==
  [skipAllErrors |-> shouldSkipErrorsForLanguage(cfg, languageId),
   shouldDecorate |-> shouldDecorateLanguage(cfg, languageId)]

\* getForLanguage that answers a hit with any cached entry, whatever its id.
getForLanguage_anyCached(cfg, c, languageId) ==
  IF DOMAIN c # {}
  THEN [properties |-> c[CHOOSE l \in DOMAIN c : TRUE], cache |-> c]
  ELSE LET properties == getForNewLanguage(cfg, languageId)
       IN [properties |-> properties,
           cache |-> [l \in {languageId} |-> properties]]

\* getForLanguage (part_000:119-128): the cached properties, or the computed
\* ones, which are then cached.  c is the cache, a function on the ids seen.
getForLanguage(cfg, c, languageId) ==
  IF languageId \in DOMAIN c
  THEN [properties |-> c[languageId], cache |-> c]
  ELSE LET properties == getForNewLanguage(cfg, languageId)
       IN [properties |-> properties,
           cache |-> [l \in DOMAIN c \cup {languageId} |->
                        IF l = languageId THEN properties ELSE c[l]]]

\* ------------------------------------------------------- FrameRainbow
\* What an editor shows for each decoration kind, as last handed to
\* setDecorations; nothing before the first call.
NoDecorations(cfg) ==
  [outerFrame |-> [i \in 1..cfg.colors |-> <<>>],
   innerFrame |-> [i \in 1..cfg.colors |-> <<>>],
   error |-> <<>>,
   tabmix |-> <<>>]

\* editor.setDecorations(decorationType, ranges): the ranges the editor shows
\* for that decoration type become the ones given, whatever they were.
setDecorations(shown, call) ==
  IF call.kind = "outerFrame"
  THEN [shown EXCEPT !.outerFrame[call.index] = call.ranges]
  ELSE IF call.kind = "innerFrame"
  THEN [shown EXCEPT !.innerFrame[call.index] = call.ranges]
  ELSE IF call.kind = "error" THEN [shown EXCEPT !.error = call.ranges]
  ELSE [shown EXCEPT !.tabmix = call.ranges]

\* The calls in a sequence, made in order on what the editor shows.
RECURSIVE setDecorationsAll(_, _)
setDecorationsAll(shown, calls) ==
  IF calls = <<>> THEN shown
  ELSE setDecorationsAll(setDecorations(shown, Head(calls)), Tail(calls))

\* The decoration type and index of each call in a sequence.
CallsLog(e, calls) ==
  [k \in 1..Len(calls) |->
     [editor |-> e, kind |-> calls[k].kind, index |-> calls[k].index]]

\* builder.apply that makes no call for an empty list.
apply_nonEmptyOnly(builder) ==
  SelectSeq(
    [i \in 1..Len(builder.outerFrame) |->
       [kind |-> "outerFrame", index |-> i, ranges |-> builder.outerFrame[i]]]
    \o [i \in 1..Len(builder.innerFrame) |->
       [kind |-> "innerFrame", index |-> i, ranges |-> builder.innerFrame[i]]]
    \o <<[kind |-> "error", index |-> 1, ranges |-> builder.error],
         [kind |-> "tabmix", index |-> 1, ranges |-> builder.tabmix]>>,
    LAMBDA call : call.ranges # <<>>)

\* builder.apply (part_000:177-186): the setDecorations calls it makes, one
\* per outer-frame type, one per inner-frame type, error, tabmix.
apply(builder) ==
  [i \in 1..Len(builder.outerFrame) |->
     [kind |-> "outerFrame", index |-> i, ranges |-> builder.outerFrame[i]]]
  \o [i \in 1..Len(builder.innerFrame) |->
     [kind |-> "innerFrame", index |-> i, ranges |-> builder.innerFrame[i]]]
  \o <<[kind |-> "error", index |-> 1, ranges |-> builder.error],
       [kind |-> "tabmix", index |-> 1, ranges |-> builder.tabmix]>>

\* clearDecorations (part_000:377-388): the calls it makes, an empty list for
\* every decoration type.
clearDecorations(cfg) ==
  [i \in 1..cfg.colors |-> [kind |-> "outerFrame", index |-> i, ranges |-> <<>>]]
  \o [i \in 1..cfg.colors |-> [kind |-> "innerFrame", index |-> i, ranges |-> <<>>]]
  \o <<[kind |-> "error", index |-> 1, ranges |-> <<>>],
       [kind |-> "tabmix", index |-> 1, ranges |-> <<>>]>>

\* clearTimeout that cancels nothing.
clearTimeout_none(pending, handle) == pending

\* clearTimeout(this.updateTimeout) (part_000:367-369): the pending timer
\* with that handle, if any, is dropped.
clearTimeout(pending, handle) == {t \in pending : t.id # handle}

\* A handle no live timer and no stored handle uses.
FreeTimerIds(pending, handle) ==
  {id \in TimerIds : id # handle /\ \A t \in pending : t.id # id}

\* maybeUpdateDecorations (part_000:357-375) with this.activeEditor = ae and
\* the editors as eds.
maybeUpdateDecorations(ae, eds) ==
  IF ae = None
  THEN /\ setDecorationsCalls' = <<>>
       /\ UNCHANGED <<cache, dirtyDecorations, rendered, updateTimeout, timers,
                      handled>>
  ELSE
    LET got == getForLanguage(config, cache, eds[ae].languageId)
        languageProperties == got.properties
        cleared == clearTimeout(timers, updateTimeout)
    IN /\ cache' = got.cache
       /\ handled' = [handled EXCEPT ![ae] =
                        IF languageProperties.shouldDecorate
                        THEN "decorate" ELSE "idle"]
       /\ IF dirtyDecorations /\ ~languageProperties.shouldDecorate
          THEN \* clearDecorations (part_000:377-388)
               /\ rendered' = [rendered EXCEPT ![ae] =
                    setDecorationsAll(@, clearDecorations(config))]
               /\ setDecorationsCalls' = CallsLog(ae, clearDecorations(config))
               /\ dirtyDecorations' = FALSE
          ELSE /\ setDecorationsCalls' = <<>>
               /\ UNCHANGED <<rendered, dirtyDecorations>>
       /\ IF languageProperties.shouldDecorate
          THEN /\ FreeTimerIds(cleared, updateTimeout) # {}
               /\ LET id == CHOOSE i \in FreeTimerIds(cleared, updateTimeout) :
                              \A j \in FreeTimerIds(cleared, updateTimeout) : i <= j
                  IN /\ timers' = cleared \cup
                          {[id |-> id, editor |-> ae,
                            skipAllErrors |-> languageProperties.skipAllErrors]}
                     /\ updateTimeout' = id
          ELSE UNCHANGED <<updateTimeout, timers>>

\* setActiveEditor (part_000:352-355), called on activation and on
\* onDidChangeActiveTextEditor (part_000:416-420).
SetActiveEditor(e) ==
  /\ constructed /\ ~hung
  /\ activeEditor' = e
  /\ maybeUpdateDecorations(e, editors)
  /\ UNCHANGED <<config, editors, hung, ignoreErrorsOnLinesRegExps,
                 constructed, uncaught>>

\* onDidChangeTextDocument (part_000:422-426): the text of editor e's
\* document has become t.
ChangeTextDocument(e, t) ==
  /\ constructed /\ ~hung
  /\ editors[e].text # t
  /\ editors' = [editors EXCEPT ![e].text = t]
  /\ IF e = activeEditor
     THEN maybeUpdateDecorations(activeEditor, editors')
     ELSE /\ setDecorationsCalls' = <<>>
          /\ UNCHANGED <<cache, dirtyDecorations, rendered, updateTimeout,
                         timers, handled>>
  /\ UNCHANGED <<config, activeEditor, hung, ignoreErrorsOnLinesRegExps,
                 constructed, uncaught>>

\* The language of editor e's document becomes languageId (the user picks a
\* language mode).  document.languageId is read anew by every
\* maybeUpdateDecorations (part_000:359-360); activate subscribes to no event
\* for the change (part_000:416-444), so no handler runs.
ChangeLanguage(e, languageId) ==
  /\ constructed /\ ~hung
  /\ editors[e].languageId # languageId
  /\ editors' = [editors EXCEPT ![e].languageId = languageId]
  /\ UNCHANGED <<config, activeEditor, cache, dirtyDecorations, updateTimeout,
                 timers, rendered, hung, ignoreErrorsOnLinesRegExps,
                 setDecorationsCalls, constructed, uncaught, handled>>

\* A timer callback that computes the pass and does not apply it.
TimerFire_noApply(t) ==
  /\ constructed /\ ~hung
  /\ t \in timers
  /\ timers' = timers \ {t}
  /\ dirtyDecorations' = TRUE
  /\ setDecorationsCalls' = <<>>
  /\ UNCHANGED <<config, editors, activeEditor, cache, updateTimeout,
                 constructed, handled, rendered, hung, uncaught,
                 ignoreErrorsOnLinesRegExps>>

\* The timer armed by setTimeout fires: the closure returned by
\* updateDecorations runs (part_000:390-409) on the editor it captured, with
\* the text the document has now; builder.apply (part_000:177-186) replaces
\* every decoration kind of that editor.  A scan that never ends hangs the
\* extension host; a push that throws ends the callback before apply.
TimerFire(t) ==
  /\ constructed /\ ~hung
  /\ t \in timers
  /\ timers' = timers \ {t}
  /\ LET pass == updateDecorations(config, ignoreErrorsOnLinesRegExps,
                                   editors[t.editor], t.skipAllErrors)
     IN IF pass.diverges
        THEN /\ hung' = TRUE
             /\ setDecorationsCalls' = <<>>
             /\ UNCHANGED <<rendered, dirtyDecorations, uncaught,
                            ignoreErrorsOnLinesRegExps>>
        ELSE IF pass.builder.threw
        THEN /\ uncaught' = TRUE
             /\ ignoreErrorsOnLinesRegExps' = pass.regExps
             /\ setDecorationsCalls' = <<>>
             /\ UNCHANGED <<rendered, dirtyDecorations, hung>>
        ELSE /\ rendered' = [rendered EXCEPT ![t.editor] =
                  setDecorationsAll(@, apply(pass.builder))]
             /\ setDecorationsCalls' = CallsLog(t.editor, apply(pass.builder))
             /\ ignoreErrorsOnLinesRegExps' = pass.regExps
             /\ dirtyDecorations' = TRUE
             /\ UNCHANGED <<hung, uncaught>>
  /\ UNCHANGED <<config, editors, activeEditor, cache, updateTimeout,
                 constructed, handled>>

\* ------------------------------------------------------ configurations
LanguageIds == {"", "py", "js"}
LanguageLists == SUBSET (LanguageIds \cup {"*"})

\* "/x/g", "x" (bare, hence not global) and "/[ \t]x/g".
PatternX ==
  [delimited |-> TRUE, classes |-> <<{"X"}>>, flags |-> {"g"}, valid |-> TRUE]
PatternBareX ==
  [delimited |-> FALSE, classes |-> <<{"X"}>>, flags |-> {}, valid |-> TRUE]
PatternWsX ==
  [delimited |-> TRUE, classes |-> <<Whitespace, {"X"}>>, flags |-> {"g"},
   valid |-> TRUE]

\* "/(?:)/g", which matches the empty string everywhere, and "(", which does
\* not compile.
PatternEmptyG ==
  [delimited |-> TRUE, classes |-> <<>>, flags |-> {"g"}, valid |-> TRUE]
PatternInvalid ==
  [delimited |-> FALSE, classes |-> <<>>, flags |-> {}, valid |-> FALSE]

Options == [tabSize : 1..MaxTabSize, insertSpaces : BOOLEAN]

\* The state the constructor leaves (part_000:335-350), for configuration cfg
\* and the editors eds of the window.
Constructed(cfg, eds) ==
  /\ config = cfg
  /\ editors = eds
  /\ activeEditor = None
  /\ cache = << >>
  /\ dirtyDecorations = FALSE
  /\ updateTimeout = 0
  /\ timers = {}
  /\ rendered = [e \in DOMAIN eds |-> NoDecorations(cfg)]
  /\ hung = FALSE
  /\ ignoreErrorsOnLinesRegExps = buildIgnoreErrorsOnLinesRegExps(cfg)
  /\ setDecorationsCalls = <<>>
  /\ constructed = TRUE
  /\ uncaught = FALSE
  /\ handled = [e \in DOMAIN eds |-> "none"]

\* ---------------------------------------------- the session specification
SessionTexts == {<<"T", "X">>, <<"S", "X", "N", "T", "T">>, <<"X">>}

Init ==
  \E colors \in 1..MaxColors, included \in {{}, {"py"}}, excluded \in {{}, {"js"}},
     ignored \in {{}, {"js"}} :
    Constructed(
      [colors |-> colors,
       ignoreLinePatterns |-> <<PatternX>>,
       ignoreErrorLanguages |-> ignored,
       includedLanguages |-> included,
       excludedLanguages |-> excluded,
       updateDelayMs |-> 100],
      [e \in {"e1", "e2"} |->
         [text |-> <<"T", "X">>,
          languageId |-> IF e = "e1" THEN "py" ELSE "js",
          options |-> [tabSize |-> 2, insertSpaces |-> FALSE]]])

Next ==
  \/ \E e \in DOMAIN editors \cup {None} : SetActiveEditor(e)
  \/ \E e \in DOMAIN editors, t \in SessionTexts : ChangeTextDocument(e, t)
  \/ \E t \in timers : TimerFire(t)

Spec == Init /\ [][Next]_vars

\* ------------------------------------------------ the timer specification
\* A step in which a timer callback runs: the only step that takes a timer
\* out of the pending ones without arming another (part_000:366-373 cancels
\* and arms in one step).  It is enabled exactly when a timer is pending.
FireStep == timers' \in SUBSET timers /\ timers' # timers

\* Weak fairness of the timer callback, WF_vars(\E t \in timers :
\* TimerFire(t)), with its enabling condition written out: setTimeout runs
\* the callback once the delay is over unless clearTimeout came first
\* (part_000:366-373), so a timer does not stay pending for ever.
TimerFairness == []<>(timers = {}) \/ []<><<FireStep>>_vars

\* A session of two editors that are both decorated, in which a pending
\* timer does fire.
TimerTexts == {<<"T", "X">>, <<"S", "X", "N", "T", "T">>}

InitTimer ==
  Constructed(
    [colors |-> 1,
     ignoreLinePatterns |-> <<PatternX>>,
     ignoreErrorLanguages |-> {"js"},
     includedLanguages |-> {},
     excludedLanguages |-> {},
     updateDelayMs |-> 100],
    [e \in {"e1", "e2"} |->
       [text |-> <<"T", "X">>,
        languageId |-> IF e = "e1" THEN "py" ELSE "js",
        options |-> [tabSize |-> 2, insertSpaces |-> FALSE]]])

NextTimer ==
  \/ \E e \in DOMAIN editors \cup {None} : SetActiveEditor(e)
  \/ \E e \in DOMAIN editors, t \in TimerTexts : ChangeTextDocument(e, t)
  \/ \E t \in timers : TimerFire(t)

SpecTimer == InitTimer /\ [][NextTimer]_vars /\ TimerFairness

\* --------------------------------------------- the language specification
\* The session with documents whose language mode the user changes: "js" is
\* excluded, every other language is decorated.
LanguageTexts == {<<"T", "X">>, <<"X">>}
SessionLanguages == {"py", "js"}

InitLanguage ==
  \E colors \in 1..MaxColors :
    Constructed(
      [colors |-> colors,
       ignoreLinePatterns |-> <<PatternX>>,
       ignoreErrorLanguages |-> {},
       includedLanguages |-> {},
       excludedLanguages |-> {"js"},
       updateDelayMs |-> 100],
      [e \in {"e1", "e2"} |->
         [text |-> <<"T", "X">>,
          languageId |-> IF e = "e1" THEN "py" ELSE "js",
          options |-> [tabSize |-> 2, insertSpaces |-> FALSE]]])

NextLanguage ==
  \/ \E e \in DOMAIN editors \cup {None} : SetActiveEditor(e)
  \/ \E e \in DOMAIN editors, t \in LanguageTexts : ChangeTextDocument(e, t)
  \/ \E e \in DOMAIN editors, l \in SessionLanguages : ChangeLanguage(e, l)
  \/ \E t \in timers : TimerFire(t)

SpecLanguage == InitLanguage /\ [][NextLanguage]_vars

\* ------------------------------------------------- the pass specification
\* One editor with any text, tab size, indentation style, colour count,
\* ignore patterns and error policy, in the state activation leaves
\* (part_000:412-416): setActiveEditor has armed the timer of the first pass.
PassPatternLists == {<<>>, <<PatternX>>, <<PatternWsX>>, <<PatternBareX>>}

InitPass ==
  \E text \in Texts, options \in Options, colors \in 1..MaxColors,
     patterns \in PassPatternLists, ignored \in {{}, {"*"}} :
    LET cfg == [colors |-> colors,
                ignoreLinePatterns |-> patterns,
                ignoreErrorLanguages |-> ignored,
                includedLanguages |-> {},
                excludedLanguages |-> {},
                updateDelayMs |-> 100]
        properties == getForNewLanguage(cfg, "py")
    IN /\ config = cfg
       /\ editors = [e \in {"e1"} |->
                       [text |-> text, languageId |-> "py", options |-> options]]
       /\ activeEditor = "e1"
       /\ cache = [l \in {"py"} |-> properties]
       /\ dirtyDecorations = FALSE
       /\ updateTimeout = 1
       /\ timers = {[id |-> 1, editor |-> "e1",
                     skipAllErrors |-> properties.skipAllErrors]}
       /\ rendered = [e \in {"e1"} |-> NoDecorations(cfg)]
       /\ hung = FALSE
       /\ ignoreErrorsOnLinesRegExps = buildIgnoreErrorsOnLinesRegExps(cfg)
       /\ setDecorationsCalls = <<>>
       /\ constructed = TRUE
       /\ uncaught = FALSE
       /\ handled = [e \in {"e1"} |-> "decorate"]

NextPass == \E t \in timers : TimerFire(t)

SpecPass == InitPass /\ [][NextPass]_vars

\* ------------------------------------------ the configuration specification
\* A setting of the user configuration: absent (userConfig[key] is
\* undefined), or set to a value.  The value of colors is the number of
\* colours listed.
Absent == [set |-> FALSE, value |-> 0]
Setting(v) == [set |-> TRUE, value |-> v]

\* getConfig (part_001:12-27): x || default takes the default for an absent
\* setting and for the number 0; a list, empty or not, is kept.
getConfig(userConfig) ==
  [colors |-> IF userConfig.colors.set THEN userConfig.colors.value ELSE 4,
   ignoreLinePatterns |->
     IF userConfig.ignoreLinePatterns.set
     THEN userConfig.ignoreLinePatterns.value ELSE <<>>,
   ignoreErrorLanguages |-> {},
   includedLanguages |-> {},
   excludedLanguages |-> {},
   updateDelayMs |->
     IF userConfig.updateDelay.set /\ userConfig.updateDelay.value # 0
     THEN userConfig.updateDelay.value ELSE 100]

\* The user configurations: the colour list absent, empty or with one or two
\* colours; the delay absent, 0 or 50; the patterns absent, "/x/g",
\* "/(?:)/g", or "(" and "/x/g".  The raw tab size of the editor is a string
\* (-1), 0, 1 or 2.
UserConfigs ==
  [colors : {Absent} \cup {Setting(n) : n \in 0..MaxColors},
   updateDelay : {Absent, Setting(0), Setting(50)},
   ignoreLinePatterns :
     {Absent, Setting(<<PatternX>>), Setting(<<PatternEmptyG>>),
      Setting(<<PatternInvalid, PatternX>>)}]

RawTabSizes == (-1)..MaxTabSize

ConfigTexts == {<<"T", "T", "X">>, <<"S", "X", "N", "S">>, <<"X">>}

\* activate (part_000:412-416): getConfig, the constructor, and
\* setActiveEditor on the editor of the window, when the constructor does not
\* throw; nothing but the configuration read when it does.
InitConfig ==
  \E userConfig \in UserConfigs, text \in ConfigTexts,
     tabSize \in RawTabSizes :
    LET cfg == getConfig(userConfig)
        properties == getForNewLanguage(cfg, "py")
        eds == [e \in {"e1"} |->
                  [text |-> text, languageId |-> "py",
                   options |-> [tabSize |-> tabSize, insertSpaces |-> TRUE]]]
    IN /\ config = cfg
       /\ editors = eds
       /\ dirtyDecorations = FALSE
       /\ rendered = [e \in {"e1"} |-> NoDecorations(cfg)]
       /\ hung = FALSE
       /\ setDecorationsCalls = <<>>
       /\ uncaught = FALSE
       /\ IF constructorThrows(cfg)
          THEN /\ constructed = FALSE
               /\ activeEditor = None
               /\ cache = << >>
               /\ updateTimeout = 0
               /\ timers = {}
               /\ ignoreErrorsOnLinesRegExps = <<>>
               /\ handled = [e \in {"e1"} |-> "none"]
          ELSE /\ constructed = TRUE
               /\ activeEditor = "e1"
               /\ cache = [l \in {"py"} |-> properties]
               /\ updateTimeout = 1
               /\ timers = {[id |-> 1, editor |-> "e1",
                             skipAllErrors |-> properties.skipAllErrors]}
               /\ ignoreErrorsOnLinesRegExps =
                    buildIgnoreErrorsOnLinesRegExps(cfg)
               /\ handled = [e \in {"e1"} |-> "decorate"]

NextConfig == \E t \in timers : TimerFire(t)

SpecConfig == InitConfig /\ [][NextConfig]_vars

\* ----------------------------------------------- the repeat specification
\* The pass specification's editor, whose document, options and
\* configuration stay as they are while it gets focus again and again
\* (part_000:416-420): pass after pass on the same input.
InitRepeat ==
  InitPass /\ config.colors = 1 /\ editors["e1"].options.insertSpaces

NextRepeat ==
  \/ SetActiveEditor("e1")
  \/ \E t \in timers : TimerFire(t)

SpecRepeat == InitRepeat /\ [][NextRepeat]_vars

\* ----------------------------------------------- the policy specification
\* Any include, exclude and ignore-error list and any language id for one
\* editor whose text has a misaligned line and a line mixing tab and space.
PolicyText == <<"S", "X", "N", "T", "S", "X">>

InitPolicy ==
  \E included \in LanguageLists, excluded \in LanguageLists,
     ignored \in LanguageLists, languageId \in LanguageIds :
    Constructed(
      [colors |-> 1,
       ignoreLinePatterns |-> <<>>,
       ignoreErrorLanguages |-> ignored,
       includedLanguages |-> included,
       excludedLanguages |-> excluded,
       updateDelayMs |-> 100],
      [e \in {"e1"} |->
         [text |-> PolicyText, languageId |-> languageId,
          options |-> [tabSize |-> 2, insertSpaces |-> TRUE]]])

NextPolicy ==
  \/ \E e \in DOMAIN editors \cup {None} : SetActiveEditor(e)
  \/ \E t \in timers : TimerFire(t)

SpecPolicy == InitPolicy /\ [][NextPolicy]_vars

\* ------------------------------------------------ the cache specification
\* One editor whose document goes through the languages "", py and js in
\* any order, with focus events in between: every sequence of getForLanguage
\* calls on the one cache, for include, exclude and ignore-error lists that
\* tell the three ids apart.
CacheIgnoreLists == {{}, {"*"}, {""}, {"py"}}

InitCache ==
  \E included \in SUBSET {"", "py"}, excluded \in SUBSET {"", "js"},
     ignored \in CacheIgnoreLists :
    Constructed(
      [colors |-> 1,
       ignoreLinePatterns |-> <<>>,
       ignoreErrorLanguages |-> ignored,
       includedLanguages |-> included,
       excludedLanguages |-> excluded,
       updateDelayMs |-> 100],
      [e \in {"e1"} |->
         [text |-> <<"S", "X">>, languageId |-> "py",
          options |-> [tabSize |-> 2, insertSpaces |-> TRUE]]])

NextCache ==
  \/ SetActiveEditor("e1")
  \/ \E l \in LanguageIds : ChangeLanguage("e1", l)
  \/ \E t \in timers : TimerFire(t)

SpecCache == InitCache /\ [][NextCache]_vars

\* ======================================================== properties
\* What the pass specification's editor shows, and the inputs of its pass.
Shown == rendered["e1"]
PassText == editors["e1"].text
PassTabSize == editors["e1"].options.tabSize
PassDone == dirtyDecorations

Lines == 0..(lineCount(PassText) - 1)

\* The whitespace run of line l: the longest prefix of the line made of tabs
\* and spaces.
RunOf(l) ==
  LET s == lineStartOffset(PassText, l)
      n == lineLength(PassText, l)
      ws == {k \in 0..n : \A j \in 1..k : PassText[s + j] \in Whitespace}
      len == CHOOSE k \in ws : \A j \in ws : j <= k
  IN SubSeq(PassText, s + 1, s + len)

HasRun(l) == RunOf(l) # <<>>

\* The entries of a list of decoration options, or of one list per colour,
\* whose range starts on line l.
OnLine(list, l) == {i \in 1..Len(list) : list[i].range.start.line = l}
OnLineGrouped(lists, l) ==
  {<<g, i>> \in (1..Len(lists)) \X (1..(MaxDocLen + 1)) :
     i <= Len(lists[g]) /\ lists[g][i].range.start.line = l}

ErrorRaised(l) == OnLine(Shown.tabmix, l) # {} \/ OnLine(Shown.error, l) # {}

\* The run of line l went through frame decoration in the pass.
ReachesFrames(l) == PassDone /\ HasRun(l) /\ ~ErrorRaised(l)

\* Columns of a run as one would count them by hand.
VisualLength(run) ==
  Cardinality({k \in 1..Len(run) : run[k] = "T"}) * PassTabSize
  + Cardinality({k \in 1..Len(run) : run[k] = "S"})

LineRange(l, from, to) ==
  [start |-> [line |-> l, character |-> from], end |-> [line |-> l, character |-> to]]

\* C1 -- Error/frame exclusivity: after a pass, a line on which a tabmix or
\* a width error range was emitted has no outer-frame and no inner-frame
\* range.
C1_ErrorFrameExclusive ==
  PassDone =>
    \A l \in Lines :
      ErrorRaised(l) =>
        /\ OnLineGrouped(Shown.outerFrame, l) = {}
        /\ OnLineGrouped(Shown.innerFrame, l) = {}

\* A pass flagged one line and framed another.
C1_Witness ==
  /\ PassDone
  /\ \E l \in Lines, m \in Lines :
       /\ ErrorRaised(l)
       /\ Len(RunOf(l)) >= 2
       /\ OnLineGrouped(Shown.innerFrame, m) # {}

\* C2 -- Depth partitioning covers the run exactly: for a run that reaches
\* partitioning, the segments are non-empty, start at the run's start, each
\* starts where the previous one ends, the last ends at the run's end, and
\* their depth indices are 0, 1, 2, ...
C2_SegmentsCoverRun ==
  \A l \in Lines :
    ReachesFrames(l) =>
      LET segs == DepthSegments(RunOf(l), PassTabSize, 0, 0)
      IN /\ Len(segs) >= 1
         /\ segs[1].start = 0
         /\ segs[Len(segs)].end = Len(RunOf(l))
         /\ \A i \in 1..Len(segs) :
              /\ segs[i].start < segs[i].end
              /\ segs[i].depthIndex = i - 1
              /\ i > 1 => segs[i].start = segs[i - 1].end

\* A suppressed run of spaces of at least two segments whose last segment
\* is clipped.
C2_Witness ==
  /\ \E l \in Lines :
       /\ ReachesFrames(l)
       /\ Len(RunOf(l)) % PassTabSize # 0
       /\ ~includes(RunOf(l), "T")
       /\ Len(DepthSegments(RunOf(l), PassTabSize, 0, 0)) >= 2
  /\ PassTabSize >= 2

\* C3 -- Outer-frame colouring: for a run that reaches partitioning, every
\* segment of depth index d >= 1 has exactly one outer-frame range, covering
\* exactly the segment, in colour group (d - 1) mod N; segment 0 has none, so
\* the line has one outer-frame range less than it has segments.
C3_OuterFrameColouring ==
  \A l \in Lines :
    ReachesFrames(l) =>
      LET segs == DepthSegments(RunOf(l), PassTabSize, 0, 0)
          onLine == OnLineGrouped(Shown.outerFrame, l)
      IN /\ Cardinality(onLine) = Len(segs) - 1
         /\ \A i \in 2..Len(segs) :
              LET here == {gi \in onLine :
                             Shown.outerFrame[gi[1]][gi[2]].range =
                               LineRange(l, segs[i].start, segs[i].end)}
              IN /\ Cardinality(here) = 1
                 /\ \A gi \in here :
                      gi[1] = ((segs[i].depthIndex - 1) % config.colors) + 1
         /\ \A gi \in onLine :
              Shown.outerFrame[gi[1]][gi[2]].range.start.character >= segs[1].end

\* A run deep enough for the colours to wrap around.
C3_Witness ==
  \E l \in Lines :
    /\ ReachesFrames(l)
    /\ Len(DepthSegments(RunOf(l), PassTabSize, 0, 0)) >= config.colors + 2
    /\ config.colors >= 2

\* C4 -- Inner frame: for a run that reaches frame decoration, with
\* tabDepth = floor(visual length / tab width): no inner-frame range on the
\* line if tabDepth = 0, otherwise exactly one, from the end of the run to
\* the end of the line, in colour group (tabDepth - 1) mod N.
C4_InnerFrame ==
  \A l \in Lines :
    ReachesFrames(l) =>
      LET tabDepth == VisualLength(RunOf(l)) \div PassTabSize
          onLine == OnLineGrouped(Shown.innerFrame, l)
      IN IF tabDepth = 0 THEN onLine = {}
         ELSE /\ Cardinality(onLine) = 1
              /\ \A gi \in onLine :
                   /\ Shown.innerFrame[gi[1]][gi[2]].range =
                        LineRange(l, Len(RunOf(l)), lineLength(PassText, l))
                   /\ gi[1] = ((tabDepth - 1) % config.colors) + 1

\* One line with an inner frame that ends at a newline, and a suppressed
\* line of depth 0 without one.
C4_Witness ==
  /\ \E l \in Lines :
       /\ ReachesFrames(l)
       /\ l < lineCount(PassText) - 1
       /\ lineLength(PassText, l) > Len(RunOf(l))
       /\ OnLineGrouped(Shown.innerFrame, l) # {}
  /\ \E l \in Lines :
       /\ ReachesFrames(l)
       /\ VisualLength(RunOf(l)) < PassTabSize

\* The policy in force for the pass specification's editor.
SkipAllErrors == cache[editors["e1"].languageId].skipAllErrors

\* Ignore-pattern number k has a match that starts on line l.
MatchStartsOnLine(k, l) ==
  LET classes == config.ignoreLinePatterns[k].classes
  IN \E i \in 0..(Len(PassText) - Len(classes)) :
       /\ \A j \in 1..Len(classes) : PassText[i + j] \in classes[j]
       /\ positionAt(PassText, i).line = l

\* Error detection is suppressed on line l.
Suppressed(l) ==
  SkipAllErrors \/ \E k \in 1..Len(config.ignoreLinePatterns) : MatchStartsOnLine(k, l)

Misaligned(l) == VisualLength(RunOf(l)) % PassTabSize # 0

\* The columns of the run of line l that hold the unexpected character.
UnexpectedColumns(l) ==
  LET unexpected == IF editors["e1"].options.insertSpaces THEN "T" ELSE "S"
  IN {c \in 0..(Len(RunOf(l)) - 1) : RunOf(l)[c + 1] = unexpected}

\* C5 as stated -- every misaligned run on a non-suppressed line gets
\* exactly one width-error range spanning the run, also when a tabmix error
\* is raised on it.
C5_AsStated ==
  PassDone =>
    \A l \in Lines :
      (HasRun(l) /\ ~Suppressed(l) /\ Misaligned(l)) =>
        /\ Cardinality(OnLine(Shown.error, l)) = 1
        /\ \A i \in OnLine(Shown.error, l) :
             Shown.error[i].range = LineRange(l, 0, Len(RunOf(l)))

\* C5 -- Width error: a misaligned run on a non-suppressed line gets exactly
\* one width-error range spanning the run when no tabmix error is raised on
\* it, and no width-error range when one is.
C5_WidthError ==
  PassDone =>
    \A l \in Lines :
      (HasRun(l) /\ ~Suppressed(l) /\ Misaligned(l)) =>
        IF UnexpectedColumns(l) # {}
        THEN /\ OnLine(Shown.tabmix, l) # {}
             /\ OnLine(Shown.error, l) = {}
        ELSE /\ Cardinality(OnLine(Shown.error, l)) = 1
             /\ \A i \in OnLine(Shown.error, l) :
                  /\ Shown.error[i].range = LineRange(l, 0, Len(RunOf(l)))
                  /\ Shown.error[i].hoverMessage =
                       <<VisualLength(RunOf(l)), PassTabSize>>

\* A misaligned line with a tabmix error and a misaligned line without.
C5_Witness ==
  /\ PassDone
  /\ \E l \in Lines, m \in Lines :
       /\ HasRun(l) /\ ~Suppressed(l) /\ Misaligned(l) /\ UnexpectedColumns(l) # {}
       /\ HasRun(m) /\ ~Suppressed(m) /\ Misaligned(m) /\ UnexpectedColumns(m) = {}

\* C6 -- Tabmix error: on a non-suppressed line the tabmix ranges are exactly
\* one range per unexpected character of the run, one character wide at that
\* character's column; so a tabmix error is raised iff the run holds an
\* unexpected character, and never on an expected one.
C6_Tabmix ==
  PassDone =>
    \A l \in Lines :
      (HasRun(l) /\ ~Suppressed(l)) =>
        /\ Cardinality(OnLine(Shown.tabmix, l)) = Cardinality(UnexpectedColumns(l))
        /\ {Shown.tabmix[i].range : i \in OnLine(Shown.tabmix, l)} =
             {LineRange(l, c, c + 1) : c \in UnexpectedColumns(l)}

\* A run with two unexpected characters around an expected one.
C6_Witness ==
  /\ PassDone
  /\ \E l \in Lines :
       /\ HasRun(l) /\ ~Suppressed(l)
       /\ Cardinality(UnexpectedColumns(l)) = 2
       /\ 1 \notin UnexpectedColumns(l)
       /\ Len(RunOf(l)) = 3

\* C7 -- Suppression: a run on a suppressed line (skipAllErrors, or an ignore
\* pattern has a match starting on the line) gets no tabmix and no width
\* error range, whatever it holds, and gets its frames: one outer-frame
\* range per segment after the first, and its inner frame unless tabDepth
\* is 0.
C7_Suppression ==
  PassDone =>
    \A l \in Lines :
      (HasRun(l) /\ Suppressed(l)) =>
        LET segs == DepthSegments(RunOf(l), PassTabSize, 0, 0)
            tabDepth == VisualLength(RunOf(l)) \div PassTabSize
        IN /\ OnLine(Shown.tabmix, l) = {}
           /\ OnLine(Shown.error, l) = {}
           /\ Cardinality(OnLineGrouped(Shown.outerFrame, l)) = Len(segs) - 1
           /\ Cardinality(OnLineGrouped(Shown.innerFrame, l)) =
                (IF tabDepth = 0 THEN 0 ELSE 1)

\* A line suppressed by a pattern whose run is misaligned and holds an
\* unexpected character, next to a flagged line that no pattern matches.
C7_Witness ==
  /\ PassDone
  /\ ~SkipAllErrors
  /\ \E l \in Lines, m \in Lines :
       /\ HasRun(l) /\ Suppressed(l) /\ Misaligned(l) /\ UnexpectedColumns(l) # {}
       /\ HasRun(m) /\ ~Suppressed(m) /\ ErrorRaised(m)

\* C8 -- Language inclusion policy: the cached shouldDecorate of a language
\* id is false iff the include list is non-empty and lacks the id, or the
\* exclude list is non-empty and holds the id.
C8_ShouldDecorate ==
  \A id \in DOMAIN cache :
    cache[id].shouldDecorate =
      ~ \/ config.includedLanguages # {} /\ id \notin config.includedLanguages
        \/ config.excludedLanguages # {} /\ id \in config.excludedLanguages

\* Both lists are configured, the include list admits the language and the
\* exclude list alone excludes it.
C8_Witness ==
  \E id \in DOMAIN cache :
    /\ id \in config.includedLanguages
    /\ id \in config.excludedLanguages
    /\ ~cache[id].shouldDecorate
    /\ activeEditor = "e1"

\* C9 as stated -- skipAllErrors is true iff the ignore-error list holds the
\* language id or the wildcard.
C9_AsStated ==
  \A id \in DOMAIN cache :
    cache[id].skipAllErrors =
      (id \in config.ignoreErrorLanguages \/ "*" \in config.ignoreErrorLanguages)

\* C9 -- Error-suppression policy: skipAllErrors is true iff the
\* ignore-error list holds the wildcard, or the language id is not empty and
\* the list holds it; a pass run under it emits no tabmix and no width-error
\* range on any line.
C9_SkipAllErrors ==
  /\ \A id \in DOMAIN cache :
       cache[id].skipAllErrors =
         \/ "*" \in config.ignoreErrorLanguages
         \/ id # "" /\ id \in config.ignoreErrorLanguages
  /\ (PassDone /\ SkipAllErrors) =>
       /\ Shown.tabmix = <<>>
       /\ Shown.error = <<>>

\* A pass over a text with a misaligned line and a line mixing tab and space
\* ran for a language that the list names without the wildcard.
C9_Witness ==
  /\ PassDone
  /\ SkipAllErrors
  /\ "*" \notin config.ignoreErrorLanguages
  /\ Misaligned(0)
  /\ UnexpectedColumns(1) # {}
  /\ Shown.error = <<>>

\* C10 -- Debounce single slot: at most one pass is pending, and it is the
\* one whose handle updateTimeout holds; a step that arms a timer leaves
\* exactly that one timer pending, whatever was pending before, and applies
\* no decoration; a step in which a timer fires leaves none pending.
C10_SingleSlot ==
  /\ [](/\ Cardinality(timers) <= 1
        /\ \A t \in timers : t.id = updateTimeout)
  /\ [][/\ (timers' # timers /\ timers' # {}) =>
             /\ Cardinality(timers') = 1
             /\ rendered' = rendered
             /\ dirtyDecorations' = dirtyDecorations
        /\ (rendered' # rendered /\ dirtyDecorations') => timers' = {}]_vars

\* A second timer is pending although no pass has run: the first one was
\* cancelled.
C10_Witness ==
  /\ Cardinality(timers) = 1
  /\ updateTimeout = 2
  /\ ~dirtyDecorations
  /\ rendered = [e \in DOMAIN editors |-> NoDecorations(config)]

\* ------------------------------------------------------------------ C11
\* The shouldDecorate the last handled event computed for editor e.
Idle(e) == handled[e] = "idle"

\* C11: an editor whose last handled event found that its language is not to
\* be decorated shows no decoration of any kind.
C11_IdleUndecorated ==
  \A e \in DOMAIN editors : Idle(e) => rendered[e] = NoDecorations(config)

\* ------------------------------------------------------------------ C12
\* The timer whose callback runs in a FireStep, and the step in which its
\* pass completes (it neither hangs nor throws).
Fired == CHOOSE t \in timers : t \notin timers'
PassCompletes == FireStep /\ ~hung' /\ ~uncaught'

\* The decoration types: N outer-frame, N inner-frame, error, tabmix.
DecorationKinds(cfg) ==
  ({"outerFrame", "innerFrame"} \X (1..cfg.colors))
  \cup {<<"error", 1>>, <<"tabmix", 1>>}

\* The number of setDecorations calls the last handler made on editor e for
\* decoration type kind.
CallCount(calls, e, kind) ==
  Cardinality({k \in 1..Len(calls) :
                 calls[k] = [editor |-> e, kind |-> kind[1], index |-> kind[2]]})

\* C12: when a pass completes, setDecorations has been called exactly once
\* for each of the 2N+2 decoration kinds, on the editor of the pass, and for
\* every kind the editor shows exactly the ranges the pass computed,
\* whatever it showed before.
C12_WholeSetReplace ==
  [][PassCompletes =>
       LET e == Fired.editor
           builder == updateDecorations(config, ignoreErrorsOnLinesRegExps,
                                        editors[e], Fired.skipAllErrors).builder
       IN /\ Len(setDecorationsCalls') = 2 * config.colors + 2
          /\ \A kind \in DecorationKinds(config) :
               CallCount(setDecorationsCalls', e, kind) = 1
          /\ rendered'[e].outerFrame = builder.outerFrame
          /\ rendered'[e].innerFrame = builder.innerFrame
          /\ rendered'[e].error = builder.error
          /\ rendered'[e].tabmix = builder.tabmix
          /\ \A other \in DOMAIN editors \ {e} :
               rendered'[other] = rendered[other]]_vars

\* A pass has completed on a document without whitespace run, in a session
\* that started with one: the editor shows nothing.
C12_Witness ==
  /\ dirtyDecorations
  /\ Len(setDecorationsCalls) = 2 * config.colors + 2
  /\ config.colors = 2
  /\ \E e \in DOMAIN editors :
       /\ setDecorationsCalls[1].editor = e
       /\ editors[e].text = <<"X">>
       /\ rendered[e] = NoDecorations(config)

\* ------------------------------------------------------------------ C13
\* C13: a pass that completes on a document, options and configuration on
\* which a pass has completed before leaves every decoration kind as that
\* pass left it, and as a pass with newly compiled ignore patterns computes
\* it: the lastIndex of the patterns, the cache and the dirty flag change
\* nothing.
C13_Idempotent ==
  [][PassCompletes /\ dirtyDecorations =>
       /\ rendered' = rendered
       /\ LET fresh == updateDecorations(config,
                         buildIgnoreErrorsOnLinesRegExps(config),
                         editors["e1"], Fired.skipAllErrors).builder
          IN /\ Shown'.outerFrame = fresh.outerFrame
             /\ Shown'.innerFrame = fresh.innerFrame
             /\ Shown'.error = fresh.error
             /\ Shown'.tabmix = fresh.tabmix]_vars

\* The second timer has run its pass, on a document with a line an ignore
\* pattern matches and a flagged line.
C13_Witness ==
  /\ dirtyDecorations /\ timers = {} /\ updateTimeout = 2
  /\ Shown.error # <<>>
  /\ ~SkipAllErrors /\ config.ignoreLinePatterns # <<>>
  /\ \E l \in Lines : MatchStartsOnLine(1, l) /\ Misaligned(l)

\* ------------------------------------------------------------------ C14
\* The tab widths the visual length is checked for, the default 4 included.
TabWidths == 1..(MaxTabSize + 2)

CountOf(run, ch) == Cardinality({k \in 1..Len(run) : run[k] = ch})

\* C14: for the whitespace run of every line and every tab width, the visual
\* length is the number of tabs times the tab width plus the number of
\* spaces, wherever the tabs stand; a run without tab has its own length, a
\* run of n tabs has n times the tab width; and the width error of a pass
\* reports this length.
C14_VisualLength ==
  \A l \in Lines :
    /\ \A tabSize \in TabWidths :
         LET length == getWhitespaceLengthInSpaces(RunOf(l), tabSize)
         IN /\ length = CountOf(RunOf(l), "T") * tabSize + CountOf(RunOf(l), "S")
            /\ CountOf(RunOf(l), "T") = 0 => length = Len(RunOf(l))
            /\ CountOf(RunOf(l), "S") = 0 => length = Len(RunOf(l)) * tabSize
    /\ PassDone =>
         \A i \in OnLine(Shown.error, l) :
           Shown.error[i].hoverMessage =
             <<CountOf(RunOf(l), "T") * PassTabSize + CountOf(RunOf(l), "S"),
               PassTabSize>>

\* A pass has run on a document with a run of a space and a tab, of length 3
\* at tab width 2 (the tab does not end at column 2), and with a run that got
\* a width error.
C14_Witness ==
  /\ PassDone /\ PassTabSize = 2
  /\ \E l \in Lines :
       /\ RunOf(l) = <<"S", "T">>
       /\ getWhitespaceLengthInSpaces(RunOf(l), PassTabSize) = 3
  /\ \E l \in Lines : OnLine(Shown.error, l) # {}

\* ------------------------------------------------------------------ C15
\* A configured ignore pattern does not compile.
HasInvalidPattern ==
  \E k \in 1..Len(config.ignoreLinePatterns) :
    ~config.ignoreLinePatterns[k].valid

\* C15: with an ignore pattern that does not compile the session is still
\* constructed, a pass is pending or has completed, and the lines a completed
\* pass suppresses are those the patterns that compile match.
C15_InvalidPatternIsolated ==
  HasInvalidPattern =>
    /\ constructed
    /\ timers # {} \/ PassDone
    /\ PassDone =>
         \A l \in Lines :
           (Misaligned(l) /\ OnLine(Shown.error, l) = {}
              /\ OnLine(Shown.tabmix, l) = {}) =>
             \E k \in 1..Len(config.ignoreLinePatterns) :
               config.ignoreLinePatterns[k].valid /\ MatchStartsOnLine(k, l)

\* ------------------------------------------------------------------ C16
\* C16: the configuration in use has at least one colour and a positive
\* delay, the tab width in use is at least 1, and is 4 when the editor's is
\* not a positive number, and no pass raises.
C16_ConfigurationFallback ==
  constructed =>
    /\ config.colors >= 1
    /\ config.updateDelayMs > 0
    /\ getTabSize(editors["e1"].options) >= 1
    /\ editors["e1"].options.tabSize <= 0 =>
         getTabSize(editors["e1"].options) = 4
    /\ ~uncaught

\* ------------------------------------------------------------------ C17
\* C17: no pass runs for ever: the scan of the ignore patterns and the
\* partitioning of the runs end, whatever the document, the tab width and
\* the patterns.
C17_PassTerminates == ~hung

\* ------------------------------------------------------------------ C18
\* A timer armed for editor e is pending.
Pending(e) == \E t \in timers : t.editor = e

\* What editor e shows is what a pass computes from its text as it is now.
Fresh(e) ==
  \E skipAllErrors \in BOOLEAN :
    LET builder == updateDecorations(config, ignoreErrorsOnLinesRegExps,
                                     editors[e], skipAllErrors).builder
    IN rendered[e] = [outerFrame |-> builder.outerFrame,
                      innerFrame |-> builder.innerFrame,
                      error |-> builder.error,
                      tabmix |-> builder.tabmix]

\* The last handler was a timer callback whose pass was applied to editor e.
PassApplied(e) ==
  /\ dirtyDecorations
  /\ setDecorationsCalls # <<>>
  /\ setDecorationsCalls[1].editor = e

\* C18: when a timer is pending for an editor, then either a later event
\* arms a timer for another editor in its place, or a pass runs for the
\* editor and the editor then shows the decorations computed from the text
\* its document has when the timer fires.
C18_EventualDecoration ==
  \A e \in {"e1", "e2"} :
    Pending(e) ~> (~Pending(e) /\ (timers # {} \/ (PassApplied(e) /\ Fresh(e))))

\* A pass has run for an editor that lost the focus while its timer was
\* pending, on a text that is not the one the session started with.
C18_Witness ==
  /\ timers = {} /\ dirtyDecorations /\ activeEditor = None
  /\ setDecorationsCalls # <<>>
  /\ \E e \in DOMAIN editors :
       /\ setDecorationsCalls[1].editor = e
       /\ handled[e] = "decorate"
       /\ editors[e].text = <<"S", "X", "N", "T", "T">>
       /\ rendered[e] # NoDecorations(config)
       /\ Fresh(e)

\* ------------------------------------------------------------------ C19
\* C19 as stated -- whenever the run of a line reaches frame decoration, its
\* visual length is a multiple of the tab width, suppressed or not.
C19_AsStated ==
  \A l \in Lines : ReachesFrames(l) => ~Misaligned(l)

\* C19: whenever the run of a line on which error detection is not
\* suppressed reaches frame decoration, its visual length is a multiple of
\* the tab width; a run on a suppressed line reaches frame decoration
\* whatever its visual length.
C19_PartitioningPrecondition ==
  \A l \in Lines :
    /\ (ReachesFrames(l) /\ ~Suppressed(l)) => ~Misaligned(l)
    /\ (PassDone /\ HasRun(l) /\ Suppressed(l)) => ReachesFrames(l)

\* A pass framed a misaligned run on a line a pattern suppresses and an
\* aligned run on a line no pattern matches.
C19_Witness ==
  /\ PassDone /\ ~SkipAllErrors
  /\ \E l \in Lines, m \in Lines :
       /\ ReachesFrames(l) /\ Suppressed(l) /\ Misaligned(l)
       /\ ReachesFrames(m) /\ ~Suppressed(m)

\* ------------------------------------------------------------------ C20
\* The characters of the run of line l from column from up to column to.
RunSlice(l, from, to) == SubSeq(RunOf(l), from + 1, to)

\* One tab, or between 1 and the tab width spaces.
TabOrSpaces(chars) ==
  \/ chars = <<"T">>
  \/ /\ Len(chars) \in 1..PassTabSize
     /\ \A k \in 1..Len(chars) : chars[k] = "S"

\* C20: every segment of a run that reaches frame decoration, and every
\* outer-frame range the pass shows on its line, is one tab or between 1 and
\* the tab width spaces, on suppressed lines that mix tabs and spaces too.
C20_SegmentShape ==
  \A l \in Lines :
    ReachesFrames(l) =>
      LET segs == DepthSegments(RunOf(l), PassTabSize, 0, 0)
      IN /\ \A i \in 1..Len(segs) :
              TabOrSpaces(RunSlice(l, segs[i].start, segs[i].end))
         /\ \A gi \in OnLineGrouped(Shown.outerFrame, l) :
              LET range == Shown.outerFrame[gi[1]][gi[2]].range
              IN TabOrSpaces(RunSlice(l, range.start.character,
                                      range.end.character))

\* ------------------------------------------------------------------ C21
\* The inner-frame ranges the editor shows, as <<colour group, index>>.
InnerFrames ==
  UNION {OnLineGrouped(Shown.innerFrame, l) : l \in Lines}

\* m is the length of the longest line of the document.
IsLongestLineLength(m) ==
  /\ \E l \in Lines : lineLength(PassText, l) = m
  /\ \A l \in Lines : lineLength(PassText, l) <= m

\* C21: every inner-frame range of a pass carries the filler width
\* longestLineLength - (length of its line), with longestLineLength the
\* maximum line length of the document; no width is negative, and line
\* length + width is the same for all lines with an inner frame.
C21_EndOfLineFiller ==
  PassDone =>
    /\ \A gi \in InnerFrames :
         LET frame == Shown.innerFrame[gi[1]][gi[2]]
             length == lineLength(PassText, frame.range.start.line)
         IN /\ frame.width >= 0
            /\ IsLongestLineLength(length + frame.width)
    /\ \A gi \in InnerFrames, gj \in InnerFrames :
         LET a == Shown.innerFrame[gi[1]][gi[2]]
             b == Shown.innerFrame[gj[1]][gj[2]]
         IN lineLength(PassText, a.range.start.line) + a.width =
              lineLength(PassText, b.range.start.line) + b.width

\* A pass gave inner frames to two lines of different lengths, the longer
\* one not the last: one filler is 0, the other is not.
C21_Witness ==
  /\ PassDone
  /\ \E gi \in InnerFrames, gj \in InnerFrames :
       LET a == Shown.innerFrame[gi[1]][gi[2]]
           b == Shown.innerFrame[gj[1]][gj[2]]
       IN /\ a.range.start.line < b.range.start.line
          /\ a.width = 0
          /\ b.width > 0

\* ------------------------------------------------------------------ C22
\* A step in which a focus event is handled for editor e1: the document and
\* the pending timers are not what ChangeLanguage or a timer callback leave.
HandlerStep == editors' = editors /\ activeEditor' = "e1" /\ ~FireStep

\* C22: every cached policy is the one a fresh computation from the
\* configuration gives for its id; a handler that asks for the policy of a
\* language id gets that policy, computes it only when the id is not yet
\* cached, and leaves every cached entry as it was.
C22_CacheTransparency ==
  /\ [](\A id \in DOMAIN cache : cache[id] = getForNewLanguage(config, id))
  /\ [][HandlerStep =>
         LET id == editors["e1"].languageId
             fresh == getForNewLanguage(config, id)
         IN /\ DOMAIN cache' = DOMAIN cache \cup {id}
            /\ \A other \in DOMAIN cache : cache'[other] = cache[other]
            /\ cache'[id] = fresh
            /\ handled'["e1"] = (IF fresh.shouldDecorate THEN "decorate" ELSE "idle")
            /\ fresh.shouldDecorate =>
                 \E t \in timers' : /\ t.id = updateTimeout'
                                    /\ t.skipAllErrors = fresh.skipAllErrors]_vars

\* The policies of the three ids, the empty one included, are cached and are
\* not all the same; a pass has run and a later event has armed a timer
\* with a cached policy.
C22_Witness ==
  /\ DOMAIN cache = LanguageIds
  /\ cache[""] # cache["py"]
  /\ cache["py"] # cache["js"]
  /\ handled["e1"] = "decorate"
  /\ dirtyDecorations /\ timers # {}

\* ------------------------------------------------------------------ C23
\* The colour groups, counted from 0, of the inner-frame ranges on line l,
\* and of the outer-frame ranges on line l that cover columns from..to.
InnerGroups(l) == {gi[1] - 1 : gi \in OnLineGrouped(Shown.innerFrame, l)}
OuterGroups(l, from, to) ==
  {gi[1] - 1 : gi \in
     {gj \in OnLineGrouped(Shown.outerFrame, l) :
        Shown.outerFrame[gj[1]][gj[2]].range = LineRange(l, from, to)}}

\* C23: for a run that reaches frame decoration on a line where error
\* detection is not suppressed, the number of segments is
\* floor(visual length / tab width), the inner frame is in the colour group
\* of depth index = number of segments, and that group is the next in the
\* cycle after the group of the deepest outer-frame segment.
C23_DepthsAgree ==
  \A l \in Lines :
    (ReachesFrames(l) /\ ~Suppressed(l)) =>
      LET segs == DepthSegments(RunOf(l), PassTabSize, 0, 0)
          last == segs[Len(segs)]
      IN /\ Len(segs) = VisualLength(RunOf(l)) \div PassTabSize
         /\ InnerGroups(l) = {decoratorIndex(Len(segs), config.colors)}
         /\ Len(segs) >= 2 =>
              \A g \in OuterGroups(l, last.start, last.end) :
                InnerGroups(l) = {(g + 1) % config.colors}
         /\ Len(segs) >= 2 => OuterGroups(l, last.start, last.end) # {}

\* A pass framed a run of four spaces at tab width 2 with two colours, on a
\* line that is not suppressed: two segments, the outer frame of the second
\* in the first colour and the inner frame in the second.
C23_Witness ==
  /\ PassTabSize = 2 /\ config.colors = 2
  /\ \E l \in Lines :
       /\ ReachesFrames(l) /\ ~Suppressed(l)
       /\ RunOf(l) = <<"S", "S", "S", "S">>
       /\ OuterGroups(l, 2, 4) = {0}
       /\ InnerGroups(l) = {1}

====
